---- MODULE Spec2Model ----
(***************************************************************************)
(* Order lifecycle of censudex-orders-service: the HTTP controller         *)
(* (controllers/ordersController.js), the gRPC service                     *)
(* (gRPC/orderGrpcService.js), the event publisher (config/rabbitmq.js)    *)
(* and the notification dispatcher (config/sendgrid.js).                   *)
(*                                                                         *)
(* Strings that the program compares or transforms are sequences of one-   *)
(* character strings; money is counted in hundredths.                      *)
(***************************************************************************)
EXTENDS Integers, Sequences, FiniteSets, TLC

VARIABLES
    orders,     \* table Orders: id -> row
    orderItems, \* table OrderItems: orderId -> the rows stored for it
    channel,    \* rabbitmq.js `let channel`
    call,       \* the request being answered: its input, what it did, its response
    boot,       \* server.js start(): where it is, and which adapters listen
    tasks       \* handlers running side by side, each between its awaits

vars == <<orders, orderItems, channel, call, boot, tasks>>

----------------------------------------------------------------------------
(* Values *)

\* JS null / undefined (a missing field of a request or a NULL column)
Null == <<"null">>

\* the empty string (what proto3 defaults give a missing string field)
Empty == <<>>

\* JS truthiness of a string-or-null value: null, undefined and "" are falsy
Truthy(v) == v # Null /\ v # Empty

\* models/order.js status ENUM
Statuses == {"pendiente", "en procesamiento", "enviado", "entregado", "cancelado"}

LowerSeq == <<"a","b","c","d","e","f","g","h","i","j","k","l","m",
              "n","o","p","q","r","s","t","u","v","w","x","y","z">>
UpperSeq == <<"A","B","C","D","E","F","G","H","I","J","K","L","M",
              "N","O","P","Q","R","S","T","U","V","W","X","Y","Z">>
DigitSeq == <<"0","1","2","3","4","5","6","7","8","9">>

Range(s) == {s[i] : i \in DOMAIN s}

\* String.prototype.toUpperCase, character by character
toUpperChar(c) ==
    IF \E i \in DOMAIN LowerSeq : LowerSeq[i] = c
    THEN UpperSeq[CHOOSE i \in DOMAIN LowerSeq : LowerSeq[i] = c]
    ELSE c

toUpperCase(s) == [i \in DOMAIN s |-> toUpperChar(s[i])]

\* String.prototype.slice(0, n)
slice(s, n) == SubSeq(s, 1, IF n < Len(s) THEN n ELSE Len(s))

\* String.prototype.trim (blanks only)
RECURSIVE trimStart(_)
trimStart(s) == IF s # <<>> /\ Head(s) = " " THEN trimStart(Tail(s)) ELSE s

RECURSIVE trimEnd(_)
trimEnd(s) ==
    IF s # <<>> /\ s[Len(s)] = " " THEN trimEnd(SubSeq(s, 1, Len(s) - 1)) ELSE s

trim(s) == trimEnd(trimStart(s))

----------------------------------------------------------------------------
(* Identifier generator *)

\* length asked of faker.string.alphanumeric at order creation
TrackingLen == 10

\* length kept of crypto.randomUUID() when an order is shipped without a number
ShipTrackingLen == 8

\* what faker.string.alphanumeric can return (mixed case letters and digits)
AlnumSamples ==
    { <<"a","7","B","x","0","9","k","Q","z","3">>,
      <<"M","4","n","8","p","2","X","c","5","d">> }

alphanumeric(n) == {s \in AlnumSamples : Len(s) = n}

\* what crypto.randomUUID can return
UuidSamples ==
    { <<"3","f","2","a","9","c","1","e","-","7","b","4","d","-","4","a","6","1","-",
        "9","e","0","c","-","5","d","8","f","2","b","7","a","1","c","3","e">> }

TrkPrefix == <<"T","R","K","-">>

\* `TRK-${faker.string.alphanumeric(10).toUpperCase()}`
newTrackingNumber(raw) == TrkPrefix \o toUpperCase(raw)

\* `TRK-${crypto.randomUUID().slice(0, 8).toUpperCase()}`
shipTrackingNumber(uuid) == TrkPrefix \o toUpperCase(slice(uuid, ShipTrackingLen))

----------------------------------------------------------------------------
(* Requests *)

\* the longest item list a request carries
MaxItems == 2

\* request items {productId, quantity, price}
Catalog ==
    << [productId |-> "p1", quantity |-> 2, price |-> 1000],
       [productId |-> "p2", quantity |-> 1, price |-> 550],
       [productId |-> "p3", quantity |-> 3, price |-> 199] >>

ItemLists == {SubSeq(Catalog, 1, n) : n \in 0..MaxItems}

FullItems == SubSeq(Catalog, 1, MaxItems)

\* ids the store's UUIDV4 default can draw
OrderIds == { <<"o","1">>, <<"o","2">> }

SeedId == <<"o","1">>

ClientId == <<"c","1">>
ClientName == <<"A","n","a">>

\* items.reduce((acc, item) => acc + item.price * item.quantity, 0)
\* (mutation: the quantity is left out of the product)
RECURSIVE totalAmountOf_NoQuantity(_)
totalAmountOf_NoQuantity(items) ==
    IF items = <<>> THEN 0
    ELSE totalAmountOf_NoQuantity(SubSeq(items, 1, Len(items) - 1))
            + items[Len(items)].price

RECURSIVE totalAmountOf(_)
totalAmountOf(items) ==
    IF items = <<>> THEN 0
    ELSE totalAmountOf(SubSeq(items, 1, Len(items) - 1))
            + items[Len(items)].price * items[Len(items)].quantity

----------------------------------------------------------------------------
(* Order store (Sequelize models Order and OrderItem) *)

NoRow ==
    [clientId |-> Null, clientName |-> Null, totalAmount |-> 0,
     status |-> "none", trackingNumber |-> Null, createdAt |-> 0]

\* createdAt: DataTypes.NOW at insertion, later for every later order
now == Cardinality(DOMAIN orders) + 1

\* Order.findByPk(id): the rows with that primary key
findByPk(id) == {o \in DOMAIN orders : o = id}

\* Order.findOne({ where: { trackingNumber } }): the rows it may return
findOne(trackingNumber) ==
    {o \in DOMAIN orders : orders[o].trackingNumber = trackingNumber}

\* (await Order.findByPk(x)) || (await Order.findOne({ where: { trackingNumber: x } }))
\* (mutation: the tracking number is looked up before the primary key)
findByPkOrTracking_TrackingFirst(idOrTracking) ==
    IF findOne(idOrTracking) # {} THEN findOne(idOrTracking)
    ELSE findByPk(idOrTracking)

findByPkOrTracking(idOrTracking) ==
    IF findByPk(idOrTracking) # {} THEN findByPk(idOrTracking)
    ELSE findOne(idOrTracking)

OrNull(S) == IF S = {} THEN {Null} ELSE S

\* how an Order.create(values, { include: items }) can end: the Order row is
\* inserted or not, and then each item row is inserted or not (one INSERT per
\* row, no transaction is passed)
StoreOutcomes(items) ==
    {[parent |-> FALSE, children |-> {}]}
        \cup {[parent |-> TRUE, children |-> S] : S \in SUBSET (1..Len(items))}

AllInserted(items) == [parent |-> TRUE, children |-> 1..Len(items)]

\* (mutation: only the first item of the request is written)
Pick_FirstOnly(items, S) ==
    IF items = <<>> \/ 1 \notin S THEN <<>> ELSE <<items[1]>>

\* the items of `items` whose index is in S, in request order
RECURSIVE Pick(_, _)
Pick(items, S) ==
    IF items = <<>> THEN <<>>
    ELSE Pick(SubSeq(items, 1, Len(items) - 1), S)
            \o (IF Len(items) \in S THEN <<items[Len(items)]>> ELSE <<>>)

SaveFx == [kind |-> "save", key |-> "order", outcome |-> "ok"]
PartialSaveFx == [kind |-> "save", key |-> "order", outcome |-> "partial"]
FailedSaveFx == [kind |-> "save", key |-> "order", outcome |-> "failed"]

\* Order.create(row + items, { include: [{ model: OrderItem, as: 'items' }] })
OrderCreate(id, row, items, out) ==
    IF ~out.parent \/ id \in DOMAIN orders
    THEN [ok |-> FALSE, orders |-> orders, orderItems |-> orderItems,
          target |-> Null, fx |-> <<FailedSaveFx>>]
    ELSE [ok |-> out.children = 1..Len(items),
          orders |-> [o \in DOMAIN orders \cup {id} |->
                         IF o = id THEN row ELSE orders[o]],
          orderItems |-> [o \in DOMAIN orders \cup {id} |->
                         IF o = id THEN Pick(items, out.children) ELSE orderItems[o]],
          target |-> id,
          fx |-> IF out.children = 1..Len(items) THEN <<SaveFx>> ELSE <<PartialSaveFx>>]

\* order.save()
OrderSave(id, row) == [orders EXCEPT ![id] = row]

----------------------------------------------------------------------------
(* Event publisher (config/rabbitmq.js) and notification dispatcher
   (config/sendgrid.js).  Each returns what happened and whether it threw. *)

BrokerFaults == {"ok", "assertExchange", "publish"}
MailFaults == {"ok", "send"}
SaveFaults == {"ok", "save"}

Envs == [broker : BrokerFaults, mail : MailFaults, save : SaveFaults]

\* message.<name>, undefined when the object has no such property
Field(message, name) == IF name \in DOMAIN message THEN message[name] ELSE Null

\* x || y
Or(x, y) == IF Truthy(x) THEN x ELSE y

\* the `message` part of massTransitMessage (messageId and CreatedAt are fresh
\* values and are left out)
envelopeOf(message) ==
    [OrderId |-> Field(message, "orderId"),
     TrackingNumber |-> Or(Field(message, "trackingNumber"), Null),
     UserId |-> Field(message, "userId"),
     \* message.items || []: an array, also an empty one, is truthy
     Items |-> IF "items" \in DOMAIN message THEN message.items ELSE <<>>]

\* nothing reached the exchange
NoEnvelope == <<>>

\* what channel.publish is given when `outcome` is how the call ended
\* messageType of massTransitMessage: one literal, whatever the routing key
messageTypeOf(routingKey) ==
    "urn:message:InventoryService.Src.Messages:OrderCreatedMessage"

Published(routingKey, message, outcome) ==
    [kind |-> "publish", key |-> routingKey, outcome |-> outcome,
     messageType |-> messageTypeOf(routingKey),
     envelope |-> IF outcome = "ok" THEN envelopeOf(message) ELSE NoEnvelope]

\* (mutation: no try/catch around assertExchange and publish)
publishToQueue_Throwing(ch, routingKey, message, env) ==
    IF ch # "valid"
    THEN [fx |-> Published(routingKey, message, "skipped"), threw |-> FALSE]
    ELSE [fx |-> Published(routingKey, message,
                           IF env.broker = "ok" THEN "ok" ELSE "failed"),
          threw |-> env.broker # "ok"]

\* (mutation: no `if (!channel) return`: the exchange is asserted on no channel)
publishToQueue_NoChannelCheck(ch, routingKey, message, env) ==
    [fx |-> Published(routingKey, message,
                      IF ch = "valid" /\ env.broker = "ok" THEN "ok" ELSE "failed"),
     threw |-> FALSE]

\* publishToQueue(routingKey, message)
publishToQueue(ch, routingKey, message, env) ==
    IF ch # "valid"
    THEN [fx |-> Published(routingKey, message, "skipped"), threw |-> FALSE]
    ELSE [fx |-> Published(routingKey, message,
                           IF env.broker = "ok" THEN "ok" ELSE "failed"),
          threw |-> FALSE]

EmailTypes == {"created", "processing", "shipped", "delivered", "cancelled"}

\* the `switch (type)` of sendOrderEmail: the template used
templateOf(type) == IF type \in EmailTypes THEN type ELSE "default"

\* what the text of a template shows of extraInfo: the shipped and the
\* cancelled template print it (`extraInfo || <fallback>`), the others do not
infoOf(template, extraInfo) ==
    CASE template = "shipped" -> Or(extraInfo, <<"N/A">>)
      [] template = "cancelled" -> Or(extraInfo, <<"No especificado.">>)
      [] OTHER -> Null

\* sendEmail(to, subject, text, html): sgMail.send inside try/catch
sendEmail(template, info, env) ==
    [fx |-> [kind |-> "email", key |-> template, info |-> info,
             outcome |-> IF env.mail = "ok" THEN "ok" ELSE "failed"],
     threw |-> FALSE]

\* sendOrderEmail(type, order, extraInfo = null)
sendOrderEmail(type, extraInfo, env) ==
    sendEmail(templateOf(type), infoOf(templateOf(type), extraInfo), env)

\* the extraInfo the cancel handlers pass
UserCancelInfo == <<"Cancelación realizada por el usuario.">>
AdminCancelInfo(reason) == <<"Cancelado por admin: ">> \o reason

\* the controller calls sendOrderEmail(order, 'created'): the Order instance
\* arrives as `type`
OrderInstance == "[object Order]"

\* `await a; await b; ...` inside one try block: effects in call order, up to
\* the first that throws
RECURSIVE runEffects(_)
runEffects(steps) ==
    IF steps = <<>> THEN [fx |-> <<>>, threw |-> FALSE]
    ELSE IF Head(steps).threw THEN [fx |-> <<Head(steps).fx>>, threw |-> TRUE]
    ELSE LET rest == runEffects(Tail(steps))
         IN  [fx |-> <<Head(steps).fx>> \o rest.fx, threw |-> rest.threw]

----------------------------------------------------------------------------
(* Handlers.  A handler maps the store and a request to what it leaves in the
   store, the row it worked on (target, and that row as it found it), the
   class of its response and the side effects it performed, in order. *)

\* outcome classes: 400 / INVALID_ARGUMENT, 404 / NOT_FOUND, 403 / PERMISSION_DENIED,
\* 500 / INTERNAL, 200 / 201 / callback(null, ...)
Responses == {"ValidationError", "NotFound", "Forbidden", "InternalError", "Success"}

\* what a handler that returns no data leaves in the response
NoBody == <<>>

Outcome(newOrders, newItems, target, before, resp, fx) ==
    [orders |-> newOrders, orderItems |-> newItems, target |-> target,
     before |-> before, resp |-> resp, fx |-> fx, body |-> NoBody]

\* an early `return res.status(...)` / `return callback({ code })`: nothing written
Reject(target, resp) ==
    Outcome(orders, orderItems, target,
            IF target \in DOMAIN orders THEN orders[target] ELSE NoRow, resp, <<>>)

\* the try block after the row was changed in memory: order.save(), then the
\* side effects in call order; any throw lands in the catch (500 / INTERNAL)
SaveThen(o, row, env, steps) ==
    IF env.save # "ok"
    THEN Outcome(orders, orderItems, o, orders[o], "InternalError", <<FailedSaveFx>>)
    ELSE LET done == runEffects(steps)
         IN  Outcome(OrderSave(o, row), orderItems, o, orders[o],
                     IF done.threw THEN "InternalError" ELSE "Success",
                     <<SaveFx>> \o done.fx)

\* the request fields a handler reads
Args(clientId, clientName, items, id, status, trackingNumber, role, reason) ==
    [clientId |-> clientId, clientName |-> clientName, items |-> items, id |-> id,
     status |-> status, trackingNumber |-> trackingNumber, role |-> role,
     reason |-> reason]

NoArgs == Args(Null, Null, <<>>, Null, "", Null, "", Null)

\* the row both transports build for Order.create
newRow(args, raw) ==
    [clientId |-> args.clientId, clientName |-> args.clientName,
     totalAmount |-> totalAmountOf(args.items), status |-> "pendiente",
     trackingNumber |-> newTrackingNumber(raw), createdAt |-> now]

\* ordersController.createOrder
createOrder(args, raw, id, out, env) ==
    IF ~Truthy(args.clientId) \/ ~Truthy(args.clientName) \/ Len(args.items) = 0
    THEN Reject(Null, "ValidationError")
    ELSE LET c == OrderCreate(id, newRow(args, raw), args.items, out)
             done == runEffects(<<publishToQueue(channel, "order.created",
                                     [orderId |-> id,
                                      trackingNumber |-> newTrackingNumber(raw),
                                      userId |-> args.clientId, items |-> args.items],
                                     env),
                                  sendOrderEmail(OrderInstance, Null, env)>>)
         IN  IF ~c.ok
             THEN Outcome(c.orders, c.orderItems, c.target, NoRow, "InternalError", c.fx)
             ELSE Outcome(c.orders, c.orderItems, c.target, NoRow,
                          IF done.threw THEN "InternalError" ELSE "Success",
                          c.fx \o done.fx)

\* orderGrpcService.CreateOrder
CreateOrder(args, raw, id, out, env) ==
    LET c == OrderCreate(id, newRow(args, raw), args.items, out)
        done == runEffects(<<publishToQueue(channel, "order.created",
                                [orderId |-> id,
                                 trackingNumber |-> newTrackingNumber(raw),
                                 clientId |-> args.clientId, items |-> args.items],
                                env),
                             sendOrderEmail("created", Null, env)>>)
    IN  IF ~c.ok
        THEN Outcome(c.orders, c.orderItems, c.target, NoRow, "InternalError", c.fx)
        ELSE Outcome(c.orders, c.orderItems, c.target, NoRow,
                     IF done.threw THEN "InternalError" ELSE "Success",
                     c.fx \o done.fx)

\* (mutation: the existing number is preferred to the supplied one)
shippedTrackingNumber_ExistingFirst(supplied, existing, uuid) ==
    IF Truthy(existing) THEN existing
    ELSE IF Truthy(supplied) THEN supplied
    ELSE shipTrackingNumber(uuid)

\* trackingNumber || order.trackingNumber || `TRK-${crypto.randomUUID()...}`
shippedTrackingNumber(supplied, existing, uuid) ==
    IF Truthy(supplied) THEN supplied
    ELSE IF Truthy(existing) THEN existing
    ELSE shipTrackingNumber(uuid)

\* (mutation: a supplied number is stored whatever the new status)
updatedTrackingNumber_AnyStatus(status, supplied, existing, uuid) ==
    IF status = "cancelado" THEN Null
    ELSE IF status = "enviado" THEN shippedTrackingNumber(supplied, existing, uuid)
    ELSE IF Truthy(supplied) THEN supplied
    ELSE existing

\* the trackingNumber updateOrderStatus leaves on the row
updatedTrackingNumber(status, supplied, existing, uuid) ==
    IF status = "cancelado" THEN Null
    ELSE IF status = "enviado" THEN shippedTrackingNumber(supplied, existing, uuid)
    ELSE existing

\* (mutation: an order that is delivered or cancelled is not written again)
updateOrderStatus_Guarded(o, args, uuid, env) ==
    IF o = Null THEN Reject(Null, "NotFound")
    ELSE IF orders[o].status \in {"entregado", "cancelado"}
    THEN Reject(o, "ValidationError")
    ELSE SaveThen(o,
            [orders[o] EXCEPT
                !.status = args.status,
                !.trackingNumber = updatedTrackingNumber(args.status,
                                      args.trackingNumber, orders[o].trackingNumber, uuid)],
            env,
            <<sendOrderEmail(OrderInstance,
                  updatedTrackingNumber(args.status, args.trackingNumber,
                                        orders[o].trackingNumber, uuid), env),
              publishToQueue(channel, "order.updated",
                  [orderId |-> args.id, status |-> args.status,
                   trackingNumber |-> updatedTrackingNumber(args.status,
                                      args.trackingNumber, orders[o].trackingNumber, uuid)],
                  env)>>)

\* ordersController.updateOrderStatus, o = Order.findByPk(id)
updateOrderStatus(o, args, uuid, env) ==
    IF o = Null THEN Reject(Null, "NotFound")
    ELSE SaveThen(o,
            [orders[o] EXCEPT
                !.status = args.status,
                !.trackingNumber = updatedTrackingNumber(args.status,
                                      args.trackingNumber, orders[o].trackingNumber, uuid)],
            env,
            <<sendOrderEmail(OrderInstance,
                  updatedTrackingNumber(args.status, args.trackingNumber,
                                        orders[o].trackingNumber, uuid), env),
              publishToQueue(channel, "order.updated",
                  [orderId |-> args.id, status |-> args.status,
                   trackingNumber |-> updatedTrackingNumber(args.status,
                                      args.trackingNumber, orders[o].trackingNumber, uuid)],
                  env)>>)

\* orderGrpcService.UpdateOrderStatus, o = Order.findByPk(id)
UpdateOrderStatus(o, args, env) ==
    IF o = Null THEN Reject(Null, "NotFound")
    ELSE SaveThen(o, [orders[o] EXCEPT !.status = args.status], env,
            <<sendOrderEmail(IF args.status = "enviado" THEN "shipped" ELSE args.status,
                             Null, env)>>)

\* (mutation: a shipped order passes the check too)
userMayCancel_Shipped(status) ==
    status = "pendiente" \/ status = "en procesamiento" \/ status = "enviado"

\* order.status !== 'pendiente' && order.status !== 'en procesamiento' -> 403
userMayCancel(status) == status = "pendiente" \/ status = "en procesamiento"

\* !reason || reason.trim() === ''
reasonMissing(reason) == ~Truthy(reason) \/ trim(reason) = Empty

\* (mutation: the user cancel is saved before the status is checked)
cancelOrder_SaveBeforeCheck(o, args, env) ==
    IF args.role = "" THEN Reject(Null, "ValidationError")
    ELSE IF o = Null THEN Reject(Null, "NotFound")
    ELSE IF args.role = "user"
    THEN IF ~userMayCancel(orders[o].status)
         THEN [Reject(o, "Forbidden") EXCEPT
                 !.orders = OrderSave(o, [orders[o] EXCEPT !.status = "cancelado"]),
                 !.fx = <<SaveFx>>]
         ELSE SaveThen(o, [orders[o] EXCEPT !.status = "cancelado"], env,
                <<sendOrderEmail(OrderInstance, UserCancelInfo, env),
                  publishToQueue(channel, "order.cancelled",
                      [orderId |-> o, cancelledBy |-> "usuario"], env)>>)
    ELSE IF args.role = "admin"
    THEN IF reasonMissing(args.reason) THEN Reject(o, "ValidationError")
         ELSE SaveThen(o, [orders[o] EXCEPT !.status = "cancelado"], env,
                <<sendOrderEmail(OrderInstance, AdminCancelInfo(args.reason), env),
                  publishToQueue(channel, "order.cancelled",
                      [orderId |-> o, cancelledBy |-> "admin",
                       reason |-> args.reason], env)>>)
    ELSE Reject(o, "ValidationError")

\* ordersController.cancelOrder, o = findByPk(idOrTracking) || findOne(...)
cancelOrder(o, args, env) ==
    IF args.role = "" THEN Reject(Null, "ValidationError")
    ELSE IF o = Null THEN Reject(Null, "NotFound")
    ELSE IF args.role = "user"
    THEN IF ~userMayCancel(orders[o].status) THEN Reject(o, "Forbidden")
         ELSE SaveThen(o, [orders[o] EXCEPT !.status = "cancelado"], env,
                <<sendOrderEmail(OrderInstance, UserCancelInfo, env),
                  publishToQueue(channel, "order.cancelled",
                      [orderId |-> o, cancelledBy |-> "usuario"], env)>>)
    ELSE IF args.role = "admin"
    THEN IF reasonMissing(args.reason) THEN Reject(o, "ValidationError")
         ELSE SaveThen(o, [orders[o] EXCEPT !.status = "cancelado"], env,
                <<sendOrderEmail(OrderInstance, AdminCancelInfo(args.reason), env),
                  publishToQueue(channel, "order.cancelled",
                      [orderId |-> o, cancelledBy |-> "admin",
                       reason |-> args.reason], env)>>)
    ELSE Reject(o, "ValidationError")

\* orderGrpcService.CancelOrder, o = findByPk(idOrTracking) || findOne(...)
CancelOrder(o, args, env) ==
    IF args.role = "" THEN Reject(Null, "ValidationError")
    ELSE IF o = Null THEN Reject(Null, "NotFound")
    ELSE SaveThen(o, [orders[o] EXCEPT !.status = "cancelado"], env,
            <<sendOrderEmail("cancelled",
                  IF args.role = "user" THEN UserCancelInfo
                  ELSE AdminCancelInfo(Or(args.reason, <<"N/A">>)), env)>>)

\* a query that rejects lands in the catch of the read handler (500 / INTERNAL)
FailedFindFx == [kind |-> "find", key |-> "order", outcome |-> "failed"]

\* a read handler's response: nothing written, `body` returned
Found(target, body) == [Reject(target, "Success") EXCEPT !.body = body]
FindFailed == [Reject(Null, "InternalError") EXCEPT !.fx = <<FailedFindFx>>]

\* the database refuses the statement (SequelizeDatabaseError)
RefusedFindFx == [kind |-> "find", key |-> "order", outcome |-> "refused"]
FindRefused == [Reject(Null, "InternalError") EXCEPT !.fx = <<RefusedFindFx>>]

\* (mutation: the status query marks a pending order as being processed)
getOrderStatus_Marking(o, args, ok) ==
    IF ~ok THEN FindFailed
    ELSE IF o = Null THEN Reject(Null, "NotFound")
    ELSE [Found(o, [trackingNumber |-> orders[o].trackingNumber,
                    status |-> orders[o].status,
                    clientName |-> orders[o].clientName,
                    totalAmount |-> orders[o].totalAmount])
            EXCEPT !.orders = [orders EXCEPT ![o].status =
                                 IF @ = "pendiente" THEN "en procesamiento" ELSE @]]

\* ordersController.getOrderStatus, o = Order.findOne({ where: { trackingNumber } })
getOrderStatus(o, args, ok) ==
    IF ~ok THEN FindFailed
    ELSE IF o = Null THEN Reject(Null, "NotFound")
    ELSE Found(o, [trackingNumber |-> orders[o].trackingNumber,
                   status |-> orders[o].status,
                   clientName |-> orders[o].clientName,
                   totalAmount |-> orders[o].totalAmount])

\* orderGrpcService.GetOrderStatus: callback(null, { trackingNumber, status })
GetOrderStatus(o, args, ok) ==
    IF ~ok THEN FindFailed
    ELSE IF o = Null THEN Reject(Null, "NotFound")
    ELSE Found(o, [trackingNumber |-> args.trackingNumber,
                   status |-> orders[o].status])

\* Order.findAll({ where: { clientId } }): the rows selected
findAllByClient(clientId) == {o \in DOMAIN orders : orders[o].clientId = clientId}

\* the orders in which a query can return the rows of S
Orderings(S) ==
    {seq \in [1..Cardinality(S) -> S] :
        \A i \in 1..Cardinality(S) : \A j \in 1..Cardinality(S) :
            i # j => seq[i] # seq[j]}

\* order: [['createdAt', 'DESC']]
createdAtDesc(seq) ==
    \A i \in 1..Len(seq) : \A j \in 1..Len(seq) :
        i < j => orders[seq[i]].createdAt >= orders[seq[j]].createdAt

\* a row with include: { model: OrderItem, as: 'items' }
withItems(o) ==
    [id |-> o, clientId |-> orders[o].clientId, status |-> orders[o].status,
     totalAmount |-> orders[o].totalAmount,
     createdAt |-> orders[o].createdAt, items |-> orderItems[o]]

\* ordersController.getOrderHistory; found = the rows as the query returned them
getOrderHistory(found, args, ok) ==
    IF ~ok THEN FindFailed
    ELSE Found(Null, [i \in 1..Len(found) |-> withItems(found[i])])

\* orderGrpcService.GetOrderHistory; found = the rows as the query returned them
GetOrderHistory(found, args, ok) ==
    IF ~ok THEN FindFailed
    ELSE Found(Null, [i \in 1..Len(found) |-> withItems(found[i])])

\* a JS Date: a time value, or Invalid Date
InvalidDate == [valid |-> FALSE, time |-> 0]

digitOf(c) == CHOOSE n \in 0..9 : DigitSeq[n + 1] = c

\* new Date(text) for the two-digit day texts the requests carry: the day
\* number, or Invalid Date for a text that is no number
newDate(text) ==
    IF Len(text) = 2 /\ \A i \in 1..2 : text[i] \in Range(DigitSeq)
    THEN [valid |-> TRUE, time |-> 10 * digitOf(text[1]) + digitOf(text[2])]
    ELSE InvalidDate

isNaN(date) == ~date.valid

\* const filters = {}; if (id) filters.id = id; ...
NoFilters == [id |-> Null, clientId |-> Null, between |-> FALSE,
              start |-> InvalidDate, end |-> InvalidDate]

\* Order.findAll({ where: filters }): the rows selected; createdAt BETWEEN
\* start AND end takes both ends
findAll(filters) ==
    {o \in DOMAIN orders :
        /\ filters.id # Null => o = filters.id
        /\ filters.clientId # Null => orders[o].clientId = filters.clientId
        /\ filters.between =>
              /\ filters.start.time <= orders[o].createdAt
              /\ orders[o].createdAt <= filters.end.time}

\* the where clause ordersController.getAllOrders builds when it gets that
\* far: the user filter is put on `userId`, which is no column of Orders
httpFilters(args) ==
    [NoFilters EXCEPT !.id = IF Truthy(args.id) THEN args.id ELSE Null]

\* ordersController.getAllOrders; found = the rows as the query returned them.
\* `Op` is not imported in the controller: building the date filter throws a
\* ReferenceError; a where clause on userId is refused by the database
getAllOrders(found, args, ok) ==
    IF Truthy(args.startDate) /\ Truthy(args.endDate)
    THEN Reject(Null, "InternalError")
    ELSE IF Truthy(args.clientId) THEN FindRefused
    ELSE IF ~ok THEN FindFailed
    ELSE Found(Null, [i \in 1..Len(found) |-> withItems(found[i])])

\* the where clause orderGrpcService.GetAllOrders builds
grpcFilters(args) ==
    [id |-> IF Truthy(args.id) THEN args.id ELSE Null,
     clientId |-> IF Truthy(args.clientId) THEN args.clientId ELSE Null,
     between |-> Truthy(args.startDate) /\ Truthy(args.endDate),
     start |-> IF Truthy(args.startDate) THEN newDate(args.startDate) ELSE InvalidDate,
     end |-> IF Truthy(args.endDate) THEN newDate(args.endDate) ELSE InvalidDate]

\* orderGrpcService.GetAllOrders; found = the rows as the query returned them
GetAllOrders(found, args, ok) ==
    IF /\ Truthy(args.startDate) /\ Truthy(args.endDate)
       /\ (isNaN(newDate(args.startDate)) \/ isNaN(newDate(args.endDate)))
    THEN Reject(Null, "ValidationError")
    ELSE IF ~ok THEN FindFailed
    ELSE Found(Null, [i \in 1..Len(found) |-> withItems(found[i])])

----------------------------------------------------------------------------
(* Input domains *)

Stock == <<"s","t","o","c","k">>
Blank == <<" "," ">>

Roles == {"", "user", "admin", "guest"}
\* reason of a cancel request: absent, empty, only spaces, or a text
Reasons == {Null, Empty, Blank, Stock}

UnknownId == <<"o","9">>

\* every tracking number the generators can produce
TrackingNumbers ==
    {newTrackingNumber(raw) : raw \in alphanumeric(TrackingLen)}
        \cup {shipTrackingNumber(uuid) : uuid \in UuidSamples}

\* trackingNumber of a PATCH /:id/status body: absent, empty, or a number that
\* an order may already carry
SuppliedTrackingNumbers ==
    {Null, Empty} \cup {newTrackingNumber(raw) : raw \in alphanumeric(TrackingLen)}

\* :idOrTracking of a cancel request
CancelTargets == OrderIds \cup {UnknownId} \cup TrackingNumbers

ValidCreateArgs == Args(ClientId, ClientName, FullItems, Null, "", Null, "", Null)

\* every create request: each required field present or missing
CreateArgs ==
    {Args(cid, cname, items, Null, "", Null, "", Null) :
        cid \in {Empty, ClientId}, cname \in {Empty, ClientName}, items \in ItemLists}

UpdateArgs ==
    {Args(Null, Null, <<>>, id, st, tn, "", Null) :
        id \in OrderIds \cup {UnknownId}, st \in Statuses, tn \in SuppliedTrackingNumbers}

\* the RPC request carries id and status only
GrpcUpdateArgs == {a \in UpdateArgs : a.trackingNumber = Null}

CancelArgs ==
    {Args(Null, Null, <<>>, t, "", Null, role, reason) :
        t \in CancelTargets, role \in Roles, reason \in Reasons}

\* a client without orders
UnknownClient == <<"c", "9">>

\* :clientId of a history query
HistoryArgs ==
    {Args(cid, Null, <<>>, Null, "", Null, "", Null) : cid \in {ClientId, UnknownClient}}

\* :trackingNumber of a status query
StatusArgs ==
    {Args(Null, Null, <<>>, Null, "", tn, "", Null) :
        tn \in TrackingNumbers \cup {UnknownId}}

\* order.save() works and each later call works or fails
SideEnvs == {e \in Envs : e.save = "ok"}

\* every call of the handler works
OkEnv == [broker |-> "ok", mail |-> "ok", save |-> "ok"]

\* or order.save() throws and nothing after it is reached
SaveEnvs == SideEnvs \cup {[broker |-> "ok", mail |-> "ok", save |-> "save"]}

\* the query of a list request: ?id&userId&startDate&endDate
QueryArgs(id, userId, startDate, endDate) ==
    [clientId |-> userId, clientName |-> Null, items |-> <<>>, id |-> id,
     status |-> "", trackingNumber |-> Null, role |-> "", reason |-> Null,
     startDate |-> startDate, endDate |-> endDate]

\* startDate and endDate of a list request: absent, one of them alone, a
\* range of days (also an empty one), and a range with a text that is no date
DateRanges ==
    { <<Null, Null>>, <<<<"0","1">>, Null>>, <<Null, <<"0","x">>>>,
      <<<<"0","1">>, <<"0","1">>>>, <<<<"0","1">>, <<"0","2">>>>,
      <<<<"0","2">>, <<"0","1">>>>,
      <<<<"0","x">>, <<"0","2">>>>, <<<<"0","1">>, <<"0","x">>>> }

ListArgs ==
    {QueryArgs(id, userId, range[1], range[2]) :
        id \in {Null, SeedId}, userId \in {Null, ClientId}, range \in DateRanges}


----------------------------------------------------------------------------
(* State machine *)

\* waitForDatabase: let retries = 10
DbRetries == 10
\* connectRabbitMQ(retries = 10, delay = 5000)
RabbitRetries == 10

\* error.message of what a failing call threw
ErrorTexts ==
    { <<"E","C","O","N","N","R","E","F","U","S","E","D">>,
      <<"E","R","_","B","A","D","_","F","I","E","L","D">> }

\* no error text in the response
NoMessage == <<>>

\* the catch block of each ordersController handler: a fixed text
httpErrorText(op) ==
    CASE op = "create" -> <<"Error al crear el pedido.">>
      [] op = "status" -> <<"Error al consultar estado del pedido.">>
      [] op = "update" -> <<"Error al actualizar estado.">>
      [] op = "cancel" -> <<"Error al cancelar pedido.">>
      [] op = "history" -> <<"Error al obtener historial.">>
      [] OTHER -> <<"Error al obtener pedidos.">>

\* the catch block of each orderGrpcService handler: `<prefix>: ${error.message}`
grpcErrorText(op, text) ==
    CASE op = "create" -> <<"Error creando la orden: ">> \o text
      [] op = "status" -> <<"Error obteniendo estado: ">> \o text
      [] op = "update" -> <<"Error actualizando estado: ">> \o text
      [] op = "cancel" -> <<"Error cancelando pedido: ">> \o text
      [] op = "history" -> <<"Error obteniendo historial: ">> \o text
      [] OTHER -> <<"Error obteniendo órdenes: ">> \o text

\* the text an internal-error response carries
errorMessage(op, via, text) ==
    IF via = "http" THEN httpErrorText(op) ELSE grpcErrorText(op, text)

\* two requests handled side by side
TaskIds == {"a", "b"}

\* a handler that has not started: `loaded` is the row as findByPk returned
\* it, `row` the instance as the handler changed it in memory, `fx` what the
\* handler does after its save, `wrote` the position of its save among the saves
NoTask ==
    [op |-> "none", args |-> NoArgs, pc |-> "idle", target |-> Null,
     loaded |-> NoRow, row |-> NoRow, resp |-> "none", fx |-> <<>>, wrote |-> 0]

NoTasks == [t \in TaskIds |-> NoTask]

NoCall ==
    [op |-> "none", via |-> "none", args |-> NoArgs, target |-> Null,
     before |-> NoRow, resp |-> "none", fx |-> <<>>, body |-> NoBody,
     message |-> NoMessage]

\* seeders/seeder.js seedDatabase: one seeded order (random status, a tracking
\* number, 1..n items, totalAmount summed over them)
seedRow(status, raw, items) ==
    [clientId |-> ClientId, clientName |-> ClientName,
     totalAmount |-> totalAmountOf(items), status |-> status,
     trackingNumber |-> newTrackingNumber(raw), createdAt |-> 1]

\* the process after start() ran through: both adapters listen
Running ==
    [pc |-> "running", error |-> "none", dbRetries |-> DbRetries,
     i |-> 1, failed |-> 0, http |-> TRUE, grpc |-> TRUE]

Init ==
    /\ \E status \in Statuses, raw \in alphanumeric(TrackingLen),
          items \in ItemLists \ {<<>>} :
          /\ orders = [o \in {SeedId} |-> seedRow(status, raw, items)]
          /\ orderItems = [o \in {SeedId} |-> items]
    /\ channel = "valid"
    /\ call = NoCall
    /\ boot = Running
    /\ tasks = NoTasks

\* no request is being answered
Idle == call.op = "none"

\* the handler runs to its response
Answer(op, via, args, r) ==
    /\ orders' = r.orders
    /\ orderItems' = r.orderItems
    /\ channel' = channel
    /\ boot' = boot
    /\ tasks' = tasks
    /\ \E text \in ErrorTexts :
          call' = [op |-> op, via |-> via, args |-> args, target |-> r.target,
                   before |-> r.before, resp |-> r.resp, fx |-> r.fx,
                   body |-> r.body,
                   message |-> IF r.resp = "InternalError"
                               THEN errorMessage(op, via, text) ELSE NoMessage]

HttpCreateOrder(args, raw, id, out, env) ==
    Idle /\ Answer("create", "http", args, createOrder(args, raw, id, out, env))

GrpcCreateOrder(args, raw, id, out, env) ==
    Idle /\ Answer("create", "grpc", args, CreateOrder(args, raw, id, out, env))

HttpUpdateOrderStatus(args, uuid, env) ==
    /\ Idle
    /\ \E o \in OrNull(findByPk(args.id)) :
          Answer("update", "http", args, updateOrderStatus(o, args, uuid, env))

GrpcUpdateOrderStatus(args, env) ==
    /\ Idle
    /\ \E o \in OrNull(findByPk(args.id)) :
          Answer("update", "grpc", args, UpdateOrderStatus(o, args, env))

HttpCancelOrder(args, env) ==
    /\ Idle
    /\ \E o \in OrNull(findByPkOrTracking(args.id)) :
          Answer("cancel", "http", args, cancelOrder(o, args, env))

GrpcCancelOrder(args, env) ==
    /\ Idle
    /\ \E o \in OrNull(findByPkOrTracking(args.id)) :
          Answer("cancel", "grpc", args, CancelOrder(o, args, env))

HttpGetOrderStatus(args, ok) ==
    /\ Idle
    /\ \E o \in OrNull(findOne(args.trackingNumber)) :
          Answer("status", "http", args, getOrderStatus(o, args, ok))

GrpcGetOrderStatus(args, ok) ==
    /\ Idle
    /\ \E o \in OrNull(findOne(args.trackingNumber)) :
          Answer("status", "grpc", args, GetOrderStatus(o, args, ok))

\* findAll with order by createdAt DESC
HttpGetOrderHistory(args, ok) ==
    /\ Idle
    /\ \E found \in {seq \in Orderings(findAllByClient(args.clientId)) :
                        createdAtDesc(seq)} :
          Answer("history", "http", args, getOrderHistory(found, args, ok))

\* findAll without order: the rows come in whatever order the store returns
GrpcGetOrderHistory(args, ok) ==
    /\ Idle
    /\ \E found \in Orderings(findAllByClient(args.clientId)) :
          Answer("history", "grpc", args, GetOrderHistory(found, args, ok))

\* findAll without order: the rows come in whatever order the store returns
HttpGetAllOrders(args, ok) ==
    /\ Idle
    /\ \E found \in Orderings(findAll(httpFilters(args))) :
          Answer("list", "http", args, getAllOrders(found, args, ok))

\* findAll with order by createdAt DESC
GrpcGetAllOrders(args, ok) ==
    /\ Idle
    /\ \E found \in {seq \in Orderings(findAll(grpcFilters(args))) :
                        createdAtDesc(seq)} :
          Answer("list", "grpc", args, GetAllOrders(found, args, ok))

\* the response is handed to the caller; the request-handling task ends
Deliver ==
    /\ call.op # "none"
    /\ call' = NoCall
    /\ UNCHANGED <<orders, orderItems, channel, boot, tasks>>

\* connection.on('close') / connection.on('error'): channel = null
ConnectionLost ==
    /\ channel = "valid"
    /\ channel' = "null"
    /\ UNCHANGED <<orders, orderItems, call, boot, tasks>>

\* the stores outcomes of a create that either fails before the Order row is
\* written or writes every row
AllOrNothing(items) == {[parent |-> FALSE, children |-> {}], AllInserted(items)}

Next ==
    \/ Idle /\ \E raw \in alphanumeric(TrackingLen), id \in OrderIds,
                  env \in SideEnvs, out \in AllOrNothing(FullItems) :
                  HttpCreateOrder(ValidCreateArgs, raw, id, out, env)
    \/ Idle /\ \E raw \in alphanumeric(TrackingLen), id \in OrderIds,
                  env \in SideEnvs, out \in AllOrNothing(FullItems) :
                  GrpcCreateOrder(ValidCreateArgs, raw, id, out, env)
    \/ Idle /\ \E args \in UpdateArgs, uuid \in UuidSamples, env \in SaveEnvs :
                  HttpUpdateOrderStatus(args, uuid, env)
    \/ Idle /\ \E args \in GrpcUpdateArgs, env \in SaveEnvs :
                  GrpcUpdateOrderStatus(args, env)
    \/ Idle /\ \E args \in CancelArgs, env \in SaveEnvs : HttpCancelOrder(args, env)
    \/ Idle /\ \E args \in CancelArgs, env \in SaveEnvs : GrpcCancelOrder(args, env)
    \/ Idle /\ \E args \in StatusArgs, ok \in BOOLEAN : HttpGetOrderStatus(args, ok)
    \/ Idle /\ \E args \in StatusArgs, ok \in BOOLEAN : GrpcGetOrderStatus(args, ok)
    \/ Idle /\ \E args \in HistoryArgs, ok \in BOOLEAN : HttpGetOrderHistory(args, ok)
    \/ Idle /\ \E args \in HistoryArgs, ok \in BOOLEAN : GrpcGetOrderHistory(args, ok)
    \/ Idle /\ \E args \in ListArgs, ok \in BOOLEAN : HttpGetAllOrders(args, ok)
    \/ Idle /\ \E args \in ListArgs, ok \in BOOLEAN : GrpcGetAllOrders(args, ok)
    \/ Deliver
    \/ ConnectionLost

Spec == Init /\ [][Next]_vars

\* a PATCH /:id/status body whose trackingNumber is the id of an order
IdAsTrackingArgs ==
    {Args(Null, Null, <<>>, id, "enviado", tn, "", Null) :
        id \in OrderIds, tn \in OrderIds}

\* cancellation among orders whose tracking numbers may be ids of orders
NextLookup ==
    \/ Idle /\ \E raw \in alphanumeric(TrackingLen), id \in OrderIds :
                  HttpCreateOrder(ValidCreateArgs, raw, id, AllInserted(FullItems), OkEnv)
    \/ Idle /\ \E args \in IdAsTrackingArgs, uuid \in UuidSamples :
                  HttpUpdateOrderStatus(args, uuid, OkEnv)
    \/ Idle /\ \E args \in CancelArgs, env \in SaveEnvs : HttpCancelOrder(args, env)
    \/ Idle /\ \E args \in CancelArgs, env \in SaveEnvs : GrpcCancelOrder(args, env)
    \/ Deliver

SpecLookup == Init /\ [][NextLookup]_vars

\* creation alone, with every create request and every store outcome
NextCreate ==
    \/ Idle /\ \E args \in CreateArgs, raw \in alphanumeric(TrackingLen),
                  id \in OrderIds, env \in SideEnvs :
                  \E out \in StoreOutcomes(args.items) :
                      HttpCreateOrder(args, raw, id, out, env)
    \/ Idle /\ \E args \in CreateArgs, raw \in alphanumeric(TrackingLen),
                  id \in OrderIds, env \in SideEnvs :
                  \E out \in StoreOutcomes(args.items) :
                      GrpcCreateOrder(args, raw, id, out, env)
    \/ Deliver
    \/ ConnectionLost

SpecCreate == Init /\ [][NextCreate]_vars

\* creation and status updates with a generator whose draws never repeat a
\* number an order carries (51 bits of entropy): the only numbers that can
\* repeat are the ones callers supply
InUse(trackingNumber) == findOne(trackingNumber) # {}
FreshRaws == {raw \in alphanumeric(TrackingLen) : ~InUse(newTrackingNumber(raw))}
FreshUuids == {uuid \in UuidSamples : ~InUse(shipTrackingNumber(uuid))}

NextFresh ==
    \/ Idle /\ \E raw \in FreshRaws, id \in OrderIds, env \in SideEnvs,
                  out \in AllOrNothing(FullItems) :
                  HttpCreateOrder(ValidCreateArgs, raw, id, out, env)
    \/ Idle /\ \E raw \in FreshRaws, id \in OrderIds, env \in SideEnvs,
                  out \in AllOrNothing(FullItems) :
                  GrpcCreateOrder(ValidCreateArgs, raw, id, out, env)
    \/ Idle /\ \E args \in UpdateArgs, uuid \in FreshUuids, env \in SaveEnvs :
                  HttpUpdateOrderStatus(args, uuid, env)
    \/ Idle /\ \E args \in GrpcUpdateArgs, env \in SaveEnvs :
                  GrpcUpdateOrderStatus(args, env)
    \/ Deliver

SpecFresh == Init /\ [][NextFresh]_vars

----------------------------------------------------------------------------
(* Startup (server.js): start() and the gRPC service launched beside it *)

NoOrders == [o \in {} |-> NoRow]

InitStart ==
    /\ orders = NoOrders
    /\ orderItems = NoOrders
    /\ channel = "unset"
    /\ call = NoCall
    /\ boot = [pc |-> "db", error |-> "none", dbRetries |-> DbRetries,
               i |-> 1, failed |-> 0, http |-> FALSE, grpc |-> FALSE]
    /\ tasks = NoTasks

\* (mutation: after the last failed attempt the loop ends without a throw)
DbAttempt_NoThrow(ok) ==
    /\ boot.pc = "db"
    /\ boot' = IF ok THEN [boot EXCEPT !.pc = "broker"]
               ELSE IF boot.dbRetries - 1 > 0
               THEN [boot EXCEPT !.dbRetries = boot.dbRetries - 1]
               ELSE [boot EXCEPT !.dbRetries = 0, !.pc = "broker"]
    /\ UNCHANGED <<orders, orderItems, channel, call, tasks>>

\* one turn of the while loop of waitForDatabase
DbAttempt(ok) ==
    /\ boot.pc = "db"
    /\ boot' = IF ok THEN [boot EXCEPT !.pc = "broker"]
               ELSE IF boot.dbRetries - 1 > 0
               THEN [boot EXCEPT !.dbRetries = boot.dbRetries - 1]
               ELSE [boot EXCEPT !.dbRetries = 0, !.pc = "failed", !.error = "db"]
    /\ UNCHANGED <<orders, orderItems, channel, call, tasks>>

\* (mutation: the last failed attempt does not throw and the loop just ends)
connectAttempt_NoThrow(b, ch, retries, ok) ==
    IF ok THEN [boot |-> [b EXCEPT !.pc = "init"], channel |-> "valid"]
    ELSE IF b.i = retries
    THEN [boot |-> [b EXCEPT !.failed = b.failed + 1, !.pc = "init"], channel |-> ch]
    ELSE [boot |-> [b EXCEPT !.failed = b.failed + 1, !.i = b.i + 1], channel |-> ch]

\* one turn of the for loop of connectRabbitMQ, i = b.i: connect and
\* createChannel succeed, or the attempt fails and is retried or rethrown
connectAttempt(b, ch, retries, ok) ==
    IF ok THEN [boot |-> [b EXCEPT !.pc = "init"], channel |-> "valid"]
    ELSE IF b.i = retries
    THEN [boot |-> [b EXCEPT !.failed = b.failed + 1, !.pc = "failed",
                             !.error = "broker"],
          channel |-> ch]
    ELSE [boot |-> [b EXCEPT !.failed = b.failed + 1, !.i = b.i + 1], channel |-> ch]

BrokerAttempt(ok) ==
    /\ boot.pc = "broker"
    /\ boot.i <= RabbitRetries
    /\ boot' = connectAttempt(boot, channel, RabbitRetries, ok).boot
    /\ channel' = connectAttempt(boot, channel, RabbitRetries, ok).channel
    /\ UNCHANGED <<orders, orderItems, call, tasks>>

\* sequelize.authenticate() and initDatabase() inside the try of start(): the
\* tables are recreated and seeded, or the error is caught and logged
InitDatabase(ok, status, raw, items) ==
    /\ boot.pc = "init"
    /\ IF ok
       THEN /\ orders' = [o \in {SeedId} |-> seedRow(status, raw, items)]
            /\ orderItems' = [o \in {SeedId} |-> items]
            /\ boot' = [boot EXCEPT !.pc = "listen"]
       ELSE /\ boot' = [boot EXCEPT !.pc = "caught", !.error = "init"]
            /\ UNCHANGED <<orders, orderItems>>
    /\ UNCHANGED <<channel, call, tasks>>

\* app.listen(PORT)
Listen ==
    /\ boot.pc = "listen"
    /\ boot' = [boot EXCEPT !.pc = "running", !.http = TRUE]
    /\ UNCHANGED <<orders, orderItems, channel, call, tasks>>

\* startGrpcService(), called without waiting for start()
GrpcStart ==
    /\ ~boot.grpc
    /\ boot.pc # "exited"
    /\ boot' = [boot EXCEPT !.grpc = TRUE]
    /\ UNCHANGED <<orders, orderItems, channel, call, tasks>>

\* start() rejected outside its try: the unhandled rejection ends the process
Exit ==
    /\ boot.pc = "failed"
    /\ boot' = [boot EXCEPT !.pc = "exited", !.grpc = FALSE]
    /\ UNCHANGED <<orders, orderItems, channel, call, tasks>>

\* instance.save() of a loaded row: UPDATE Orders SET <the attributes whose
\* value was changed on the instance> WHERE id; the other columns keep what
\* the table holds
saveChanged(stored, loaded, row) ==
    [f \in DOMAIN stored |-> IF row[f] # loaded[f] THEN row[f] ELSE stored[f]]

\* a handler up to its `await order.save()`: it has loaded the order, made its
\* checks and changed the instance in memory; r is what the handler makes of
\* the store as it is now
Begin(t, op, args, r) ==
    /\ tasks[t].pc = "idle"
    /\ tasks' = [tasks EXCEPT ![t] =
          [op |-> op, args |-> args,
           pc |-> IF r.resp = "Success" THEN "loaded" ELSE "done",
           target |-> r.target, loaded |-> r.before,
           row |-> IF r.resp = "Success" THEN r.orders[r.target] ELSE r.before,
           resp |-> IF r.resp = "Success" THEN "none" ELSE r.resp,
           fx |-> r.fx, wrote |-> 0]]
    /\ UNCHANGED <<orders, orderItems, channel, call, boot>>

\* ordersController.updateOrderStatus, lines 132-146
BeginUpdate(t, args, uuid) ==
    \E o \in OrNull(findByPk(args.id)) :
        Begin(t, "update", args, updateOrderStatus(o, args, uuid, OkEnv))

\* ordersController.cancelOrder, lines 193-209 and 229-235
BeginCancel(t, args) ==
    \E o \in OrNull(findByPkOrTracking(args.id)) :
        Begin(t, "cancel", args, cancelOrder(o, args, OkEnv))

\* `await order.save()` and the rest of the handler: the mail, the event and
\* the response; a save of an instance on which nothing changed writes nothing
Save(t) ==
    /\ tasks[t].pc = "loaded"
    /\ orders' = [orders EXCEPT ![tasks[t].target] =
                    saveChanged(@, tasks[t].loaded, tasks[t].row)]
    /\ tasks' = [tasks EXCEPT ![t].pc = "done", ![t].resp = "Success",
                    ![t].wrote =
                        IF tasks[t].row = tasks[t].loaded THEN 0
                        ELSE Cardinality({u \in TaskIds : tasks[u].wrote > 0}) + 1]
    /\ UNCHANGED <<orderItems, channel, call, boot>>

\* the requests of the two tasks: updates and cancels of the seeded order
RaceUpdateArgs ==
    {Args(Null, Null, <<>>, SeedId, st, tn, "", Null) :
        st \in Statuses, tn \in SuppliedTrackingNumbers \ {Empty}}

RaceCancelArgs ==
    {Args(Null, Null, <<>>, SeedId, "", Null, role, Stock) : role \in {"user", "admin"}}

NextRace ==
    \/ \E t \in TaskIds, args \in RaceUpdateArgs, uuid \in UuidSamples :
          BeginUpdate(t, args, uuid)
    \/ \E t \in TaskIds, args \in RaceCancelArgs : BeginCancel(t, args)
    \/ \E t \in TaskIds : Save(t)

SpecRace == Init /\ [][NextRace]_vars

\* initDatabase() has recreated the tables and calls seedDatabase, while the
\* gRPC service, launched beside start(), is already serving; `plan` are the
\* items the seeder is still to create and `total` its running totalAmount
Seeding(pc, plan, total) ==
    [pc |-> pc, error |-> "none", dbRetries |-> DbRetries, i |-> 1, failed |-> 0,
     http |-> FALSE, grpc |-> TRUE, plan |-> plan, total |-> total]

InitSeed ==
    /\ orders = NoOrders
    /\ orderItems = NoOrders
    /\ channel \in {"valid", "null"}
    /\ call = NoCall
    /\ boot = Seeding("seed", <<>>, 0)
    /\ tasks = NoTasks

\* seedDatabase: Order.create({ ..., totalAmount: 0, status, trackingNumber })
SeedOrder(status, raw, items) ==
    /\ boot.pc = "seed"
    /\ orders' = [o \in {SeedId} |->
                    [seedRow(status, raw, items) EXCEPT !.totalAmount = 0]]
    /\ orderItems' = [o \in {SeedId} |-> <<>>]
    /\ boot' = [boot EXCEPT !.pc = "items", !.plan = items]
    /\ UNCHANGED <<channel, call, tasks>>

\* one turn of the inner loop: totalAmount += price * quantity, then
\* OrderItem.create({ orderId: order.id, ... })
SeedItem ==
    /\ boot.pc = "items"
    /\ boot.plan # <<>>
    /\ orderItems' = [orderItems EXCEPT ![SeedId] = Append(@, Head(boot.plan))]
    /\ boot' = [boot EXCEPT
                  !.plan = Tail(boot.plan),
                  !.total = @ + Head(boot.plan).price * Head(boot.plan).quantity]
    /\ UNCHANGED <<orders, channel, call, tasks>>

\* order.totalAmount = totalAmount; await order.save(); seeding is over
SeedTotal ==
    /\ boot.pc = "items"
    /\ boot.plan = <<>>
    /\ orders' = [orders EXCEPT ![SeedId].totalAmount = boot.total]
    /\ boot' = [boot EXCEPT !.pc = "listen"]
    /\ UNCHANGED <<orderItems, channel, call, tasks>>

\* seeding step by step, with the reads that are served meanwhile and after
NextSeed ==
    \/ \E status \in Statuses, raw \in alphanumeric(TrackingLen),
          items \in ItemLists \ {<<>>} : SeedOrder(status, raw, items)
    \/ SeedItem
    \/ SeedTotal
    \/ Listen
    \/ boot.grpc /\ Idle /\
          \E args \in ListArgs, ok \in BOOLEAN : GrpcGetAllOrders(args, ok)
    \/ boot.grpc /\ Idle /\
          \E args \in HistoryArgs, ok \in BOOLEAN : GrpcGetOrderHistory(args, ok)
    \/ boot.http /\ Idle /\
          \E args \in HistoryArgs, ok \in BOOLEAN : HttpGetOrderHistory(args, ok)
    \/ Deliver

SpecSeed == InitSeed /\ [][NextSeed]_vars

NextStart ==
    \/ \E ok \in BOOLEAN : DbAttempt(ok)
    \/ \E ok \in BOOLEAN : BrokerAttempt(ok)
    \/ \E ok \in BOOLEAN, status \in Statuses, raw \in alphanumeric(TrackingLen),
          items \in ItemLists \ {<<>>} : InitDatabase(ok, status, raw, items)
    \/ Listen
    \/ GrpcStart
    \/ Exit
    \/ ConnectionLost
    \/ boot.http /\ Idle /\
          \E raw \in alphanumeric(TrackingLen), id \in OrderIds, env \in SideEnvs :
              HttpCreateOrder(ValidCreateArgs, raw, id, AllInserted(FullItems), env)
    \/ boot.http /\ Idle /\
          \E args \in StatusArgs : HttpGetOrderStatus(args, TRUE)
    \/ boot.grpc /\ Idle /\
          \E args \in StatusArgs, ok \in BOOLEAN : GrpcGetOrderStatus(args, ok)
    \/ Deliver

SpecStart == InitStart /\ [][NextStart]_vars

\* the steps of start() and of the gRPC launch
StartSteps ==
    \/ \E ok \in BOOLEAN : DbAttempt(ok)
    \/ \E ok \in BOOLEAN : BrokerAttempt(ok)
    \/ \E ok \in BOOLEAN, status \in Statuses, raw \in alphanumeric(TrackingLen),
          items \in ItemLists \ {<<>>} : InitDatabase(ok, status, raw, items)
    \/ Listen
    \/ GrpcStart
    \/ Exit

\* the event loop runs whatever is ready: startup is not held up by requests,
\* and a response that is ready is delivered
SpecStartFair ==
    SpecStart /\ WF_vars(NextStart) /\ WF_vars(StartSteps) /\ WF_vars(Deliver)

----------------------------------------------------------------------------
(* Properties.  `call` holds the request just answered: what was asked, the
   row it worked on as the handler found it, the response and the side effects
   in the order they were performed. *)

Answered(op) == call.op = op
OnOrder == call.target \in DOMAIN orders /\ call.before # NoRow
\* the store write of the call went through / was reached and did not
StoreWrote == call.fx # <<>> /\ call.fx[1] = SaveFx
StoreFailed == \E i \in 1..Len(call.fx) :
                  call.fx[i].kind = "save" /\ call.fx[i].outcome # "ok"

\* C1: an HTTP cancel by role user of an existing order succeeds, leaving the
\* order cancelled, exactly when the order was pending or in processing; for
\* any other status it is refused as Forbidden and the stored order is as it
\* was (the store write itself not failing).
C1_UserCancelOnlyEarly ==
    (Answered("cancel") /\ call.via = "http" /\ call.args.role = "user"
        /\ OnOrder /\ ~StoreFailed)
    => IF call.before.status \in {"pendiente", "en procesamiento"}
       THEN call.resp = "Success" /\ orders[call.target].status = "cancelado"
       ELSE call.resp = "Forbidden" /\ orders[call.target] = call.before

\* a user was refused the cancellation of a shipped order
C1_Witness ==
    /\ Answered("cancel") /\ call.via = "http" /\ call.args.role = "user"
    /\ OnOrder /\ call.before.status = "enviado"
    /\ call.resp = "Forbidden"

ReasonAbsent(reason) ==
    reason = Null \/ \A i \in 1..Len(reason) : reason[i] = " "

\* C2: a cancel by role admin whose reason is missing, empty or only
\* whitespace is refused with ValidationError whatever the status of the
\* order, and the stored order is as it was.
C2_AdminCancelNeedsReason ==
    (Answered("cancel") /\ call.args.role = "admin"
        /\ ReasonAbsent(call.args.reason) /\ OnOrder /\ ~StoreFailed)
    => call.resp = "ValidationError" /\ orders[call.target] = call.before

\* C3: a cancel by role admin with a reason leaves the order cancelled and
\* its trackingNumber null.
C3_AdminCancelClearsTracking ==
    (Answered("cancel") /\ call.args.role = "admin"
        /\ ~ReasonAbsent(call.args.reason) /\ OnOrder /\ ~StoreFailed)
    => /\ orders[call.target].status = "cancelado"
       /\ orders[call.target].trackingNumber = Null

\* pendiente -> en procesamiento -> enviado -> entregado, and the moves to
\* cancelado that a user or an administrator is allowed
LifecycleEdges ==
    {<<"pendiente", "en procesamiento">>, <<"en procesamiento", "enviado">>,
     <<"enviado", "entregado">>,
     <<"pendiente", "cancelado">>, <<"en procesamiento", "cancelado">>,
     <<"enviado", "cancelado">>}

\* C4: whenever an operation changes the status of a stored order, the change
\* is an edge of the lifecycle; an order that is delivered or cancelled never
\* changes status again.
C4_StatusFollowsLifecycle ==
    [][\A o \in DOMAIN orders :
          orders'[o].status # orders[o].status
          => <<orders[o].status, orders'[o].status>> \in LifecycleEdges]_vars

RECURSIVE SumOfLines(_)
SumOfLines(items) ==
    IF items = <<>> THEN 0
    ELSE Head(items).price * Head(items).quantity + SumOfLines(Tail(items))

ValidCreateInput(args) ==
    /\ args.clientId \notin {Null, Empty}
    /\ args.clientName \notin {Null, Empty}
    /\ Len(args.items) >= 1

UpperAlnum == Range(UpperSeq) \cup Range(DigitSeq)

\* TRK- followed by exactly 10 uppercase letters or digits
WellFormedTracking(tn) ==
    /\ Len(tn) = 4 + 10
    /\ SubSeq(tn, 1, 4) = <<"T", "R", "K", "-">>
    /\ \A i \in 5..Len(tn) : tn[i] \in UpperAlnum

\* C5: a create with a client id, a client name and at least one item, on
\* either transport, stores an order whose totalAmount is the sum of
\* price*quantity over its items, whose status is pendiente and whose
\* trackingNumber is TRK- followed by 10 uppercase alphanumerics (the store
\* write itself not failing).
C5_CreatedOrderShape ==
    (Answered("create") /\ ValidCreateInput(call.args) /\ ~StoreFailed)
    => /\ call.resp = "Success"
       /\ call.target \in DOMAIN orders
       /\ orderItems[call.target] = call.args.items
       /\ orders[call.target].totalAmount = SumOfLines(orderItems[call.target])
       /\ orders[call.target].status = "pendiente"
       /\ WellFormedTracking(orders[call.target].trackingNumber)

\* an order of two lines was created through the RPC handler
C5_Witness ==
    /\ Answered("create") /\ call.via = "grpc" /\ call.resp = "Success"
    /\ Len(call.args.items) = 2
    /\ orders[call.target].totalAmount = 2550

\* C6: a create with an empty item list, or without client name or client id,
\* is refused with ValidationError on both transports; no order is added and
\* no event or notification goes out.
C6_InvalidCreateRefused ==
    (Answered("create") /\ ~ValidCreateInput(call.args) /\ ~StoreFailed)
    => /\ call.resp = "ValidationError"
       /\ call.target \notin DOMAIN orders
       /\ call.fx = <<>>

\* C7: no order is ever visible with none or only some of the items of its
\* request, also after the store failed part-way through the create.
C7_OrderAndItemsAtomic ==
    (Answered("create") /\ call.target \in DOMAIN orders)
    => orderItems[call.target] = call.args.items

Precedes(a, b) ==
    \A j \in 1..Len(call.fx) :
        call.fx[j].kind = b => \E i \in 1..(j - 1) : call.fx[i].kind = a

\* C8: in every successful create, update and cancel the store write comes
\* first, then the event is published, then the notification is sent: no
\* notification before the event of the same operation, neither before the
\* store write.
C8_PersistPublishNotify ==
    (call.op \in {"create", "update", "cancel"} /\ call.resp = "Success")
    => /\ Precedes("save", "publish")
       /\ Precedes("save", "email")
       /\ Precedes("publish", "email")

SideEffectFailed ==
    \E i \in 1..Len(call.fx) :
        call.fx[i].kind \in {"publish", "email"} /\ call.fx[i].outcome # "ok"

\* the change the operation asked for is in the store
Persisted ==
    /\ call.target \in DOMAIN orders
    /\ orders[call.target].status =
          CASE call.op = "create" -> "pendiente"
            [] call.op = "update" -> call.args.status
            [] OTHER -> "cancelado"

Given(v) == v \notin {Null, Empty}

\* a number of the form the update handler generates: TRK- and 8 characters
FreshShipNumbers == {shipTrackingNumber(uuid) : uuid \in UuidSamples}

C12_CancelUpdateClearsTracking ==
    (Answered("update") /\ call.args.status = "cancelado" /\ OnOrder /\ StoreWrote)
    => /\ orders[call.target].trackingNumber = Null
       /\ call.before.trackingNumber # Null
            => call.target \notin findOne(call.before.trackingNumber)

\* C13: no two different orders ever carry the same non-null trackingNumber,
\* whatever creates and status updates were made (updates to enviado with a
\* number supplied by the caller included).
C13_TrackingNumbersUnique ==
    \A a \in DOMAIN orders : \A b \in DOMAIN orders :
        (a # b /\ orders[a].trackingNumber # Null)
        => orders[a].trackingNumber # orders[b].trackingNumber

\* C14: a status query by tracking number returns the summary
\* {trackingNumber, status, clientName, totalAmount} of an order that carries
\* that number now, the status being the stored one, and is answered
\* NotFound exactly when no order carries the number (the query itself not
\* failing).
C14_StatusQuerySummary ==
    (Answered("status") /\ call.fx = <<>>)
    => IF findOne(call.args.trackingNumber) = {}
       THEN call.resp = "NotFound"
       ELSE /\ call.resp = "Success"
            /\ call.target \in findOne(call.args.trackingNumber)
            /\ DOMAIN call.body =
                  {"trackingNumber", "status", "clientName", "totalAmount"}
            /\ call.body.trackingNumber = call.args.trackingNumber
            /\ call.body.status = orders[call.target].status
            /\ call.body.clientName = orders[call.target].clientName
            /\ call.body.totalAmount = orders[call.target].totalAmount

\* C15: a history query returns exactly the orders of the client asked for,
\* each with its items, the most recently created first, on both transports;
\* for a client without orders it returns the empty list and no error (the
\* query itself not failing).
C15_HistoryNewestFirst ==
    (Answered("history") /\ call.fx = <<>>)
    => /\ call.resp = "Success"
       /\ {call.body[i].id : i \in 1..Len(call.body)}
             = {o \in DOMAIN orders : orders[o].clientId = call.args.clientId}
       /\ \A i \in 1..Len(call.body) : \A j \in 1..Len(call.body) :
             /\ i # j => call.body[i].id # call.body[j].id
             /\ i < j => call.body[i].createdAt >= call.body[j].createdAt
       /\ \A i \in 1..Len(call.body) :
             call.body[i].items = orderItems[call.body[i].id]

Count(x, seq) == Cardinality({i \in 1..Len(seq) : seq[i] = x})

\* the same multiset of (productId, quantity, price)
SameItemSet(a, b) ==
    /\ Len(a) = Len(b)
    /\ \A x \in Range(a) \cup Range(b) : Count(x, a) = Count(x, b)

C17_BoundedBrokerRetries ==
    /\ [](boot.failed <= RabbitRetries)
    /\ [][boot.pc = "broker" /\ boot'.pc # "broker" /\ boot'.failed = boot.failed
            => channel' = "valid"]_vars
    /\ [][boot.pc # "broker" => boot'.failed = boot.failed]_vars
    /\ [](boot.failed = RabbitRetries
            => channel # "valid" /\ ~boot.http /\ boot.pc \in {"failed", "exited"})

\* the tenth attempt in a row failed and the process is gone without HTTP
C17_Witness ==
    /\ boot.failed = RabbitRetries /\ boot.pc = "exited"
    /\ boot.error = "broker" /\ ~boot.http

\* C18: once the connection reported close or error the cached channel is
\* invalid, and a publish made while it is invalid returns at once: nothing
\* is published, nothing is retried, nothing is raised, and the operation
\* that called it completes with its normal answer.
C18_PublishFailsFast ==
    /\ [][channel = "valid" /\ channel' # channel => channel' = "null"]_vars
    /\ [][(call.op = "none" /\ call'.op # "none" /\ channel # "valid")
            => /\ \A i \in 1..Len(call'.fx) :
                    call'.fx[i].kind = "publish"
                    => /\ call'.fx[i].outcome = "skipped"
                       /\ call'.fx[i].envelope = NoEnvelope
               /\ Cardinality({i \in 1..Len(call'.fx) :
                                  call'.fx[i].kind = "publish"}) <= 1
               /\ (call'.fx # <<>> /\ call'.fx[1] = SaveFx)
                    => call'.resp = "Success"]_vars

\* an update was stored and answered with success while the channel was gone
C18_Witness ==
    /\ Answered("update") /\ channel = "null" /\ call.resp = "Success"
    /\ \E i \in 1..Len(call.fx) :
          call.fx[i].kind = "publish" /\ call.fx[i].outcome = "skipped"

\* C19: the publisher reconnects: once a close or error event has made the
\* channel invalid, the channel becomes valid again.
C19_ChannelReconnects == (channel = "null") ~> (channel = "valid")

\* C20: every successful cancel made while the channel is valid (and the
\* broker takes the message) publishes an event with routing key
\* order.cancelled whose envelope carries cancelledBy naming the actor (user or
\* admin) and, for an admin, the reason of the request.
C20_CancelledEventNamesActor ==
    [][(call.op = "none" /\ call'.op = "cancel" /\ call'.resp = "Success"
          /\ channel = "valid"
          /\ \A i \in 1..Len(call'.fx) : call'.fx[i].outcome # "failed")
        => \E i \in 1..Len(call'.fx) :
              /\ call'.fx[i].kind = "publish"
              /\ call'.fx[i].key = "order.cancelled"
              /\ call'.fx[i].outcome = "ok"
              /\ "cancelledBy" \in DOMAIN call'.fx[i].envelope
              /\ call'.fx[i].envelope.cancelledBy = call'.args.role
              /\ call'.args.role = "admin"
                    => /\ "reason" \in DOMAIN call'.fx[i].envelope
                       /\ call'.fx[i].envelope.reason = call'.args.reason]_vars

\* the side effects of kind `kind` the answered call performed, by position
FxOfKind(c, kind) == {i \in 1..Len(c.fx) : c.fx[i].kind = kind}

\* C21: every successful status update, over HTTP and over RPC, first stores
\* the new status and then, the channel being valid, publishes exactly one
\* event with routing key order.updated and sends exactly one notification;
\* no status is stored without a publish of order.updated being attempted.
C21_UpdatePublishesOnce ==
    [][(call.op = "none" /\ call'.op = "update" /\ call'.resp = "Success"
          /\ channel = "valid")
        => /\ call'.fx[1] = SaveFx
           /\ Cardinality(FxOfKind(call', "publish")) = 1
           /\ \A i \in FxOfKind(call', "publish") :
                 call'.fx[i].key = "order.updated" /\ call'.fx[i].outcome # "skipped"
           /\ Cardinality(FxOfKind(call', "email")) = 1]_vars

\* the events a handler handed to the exchange, in order
Events(fx) ==
    LET pub == SelectSeq(fx, LAMBDA e : e.kind = "publish")
    IN  [i \in 1..Len(pub) |-> [key |-> pub[i].key, envelope |-> pub[i].envelope]]

NoFault(fx) == \A i \in 1..Len(fx) : fx[i].outcome = "ok"

\* handler result g leaves the store, the events and the outcome class that
\* the answered call left
SameAs(g, resp, newOrders, fx) ==
    /\ g.resp = resp
    /\ DOMAIN g.orders = DOMAIN newOrders
    /\ \A o \in DOMAIN newOrders :
          /\ g.orders[o].status = newOrders[o].status
          /\ g.orders[o].trackingNumber = newOrders[o].trackingNumber
    /\ Events(g.fx) = Events(fx)

\* C22: the two adapters implement the same operations: from the same store
\* state and for the same create, update or cancel request, the RPC handler
\* leaves the same status and trackingNumber on every order, publishes the
\* same events and answers with the same outcome class as the HTTP handler
\* (nothing failing in the store, the broker or the mail service).
C22_TransportsAgree ==
    [][(call.op = "none" /\ call'.via = "http" /\ channel = "valid"
          /\ call'.op \in {"create", "update", "cancel"}
          /\ NoFault(call'.fx)
          /\ (call'.op = "update" => call'.args.trackingNumber = Null))
        => CASE call'.op = "cancel" ->
                  \E o \in OrNull(findByPkOrTracking(call'.args.id)) :
                      SameAs(CancelOrder(o, call'.args, OkEnv),
                             call'.resp, orders', call'.fx)
             [] call'.op = "update" ->
                  \E o \in OrNull(findByPk(call'.args.id)) :
                      SameAs(UpdateOrderStatus(o, call'.args, OkEnv),
                             call'.resp, orders', call'.fx)
             [] OTHER ->
                  \E raw \in alphanumeric(TrackingLen), id \in OrderIds :
                      SameAs(CreateOrder(call'.args, raw, id,
                                         AllInserted(call'.args.items), OkEnv),
                             call'.resp, orders', call'.fx)]_vars

\* C23: an RPC cancel by role user of an existing order that is neither
\* pending nor in processing is answered permission-denied and the stored
\* order keeps its status (the store itself not failing).
C23_RpcUserCancelRefused ==
    (Answered("cancel") /\ call.via = "grpc" /\ call.args.role = "user"
        /\ OnOrder /\ ~StoreFailed
        /\ call.before.status \notin {"pendiente", "en procesamiento"})
    => (call.resp = "Forbidden"
        /\ orders[call.target].status = call.before.status)

\* the answered call handed the broker an event about order `id`
PublishedFor(id) ==
    \E i \in 1..Len(call.fx) :
        /\ call.fx[i].kind = "publish"
        /\ call.fx[i].outcome = "ok"
        /\ call.fx[i].envelope.OrderId = id

\* C24: delivery is at least once: whenever a create, update or cancel has
\* stored its change of an order, an event about that order is eventually
\* published, also when the channel was invalid or the publish failed at the
\* time of the call.
C24_EventEventuallyPublished ==
    \A id \in OrderIds :
        (call.op \in {"create", "update", "cancel"} /\ call.target = id
            /\ StoreWrote)
        ~> PublishedFor(id)

\* the list request carried both ends of a date range
DateRangeGiven == Truthy(call.args.startDate) /\ Truthy(call.args.endDate)

\* C25: a list request with a date range of which one end is no valid date
\* is answered ValidationError on both transports.
C25_InvalidDateRefused ==
    (Answered("list") /\ DateRangeGiven
        /\ (isNaN(newDate(call.args.startDate)) \/ isNaN(newDate(call.args.endDate))))
    => call.resp = "ValidationError"

\* the orders a list request asks for: every supplied filter holds
Wanted(args) ==
    {o \in DOMAIN orders :
        /\ Truthy(args.id) => o = args.id
        /\ Truthy(args.clientId) => orders[o].clientId = args.clientId
        /\ (Truthy(args.startDate) /\ Truthy(args.endDate)) =>
              /\ newDate(args.startDate).time <= orders[o].createdAt
              /\ orders[o].createdAt <= newDate(args.endDate).time}

\* C26: a list request whose dates, if both given, are valid, the store being
\* reachable, returns exactly the stored orders that satisfy every
\* supplied filter, each with its items.
C26_ListIsExactlyTheFiltered ==
    (Answered("list")
        /\ (DateRangeGiven => /\ ~isNaN(newDate(call.args.startDate))
                              /\ ~isNaN(newDate(call.args.endDate)))
        /\ \A i \in 1..Len(call.fx) : call.fx[i].outcome # "failed")
    => /\ call.resp = "Success"
       /\ {call.body[i] : i \in 1..Len(call.body)}
             = {withItems(o) : o \in Wanted(call.args)}
       /\ Len(call.body) = Cardinality(Wanted(call.args))

\* C27: the response to a call that failed internally is generic: it is the
\* same whatever the text of the internal error, on both transports.
C27_InternalErrorIsGeneric ==
    call.resp = "InternalError"
    => \A text \in ErrorTexts :
          call.message = errorMessage(call.op, call.via, text)

\* C28: a cancel that names a role resolves its idOrTracking X first as a
\* primary id and only then as a tracking number: when an order has id X that
\* order is the one acted on (and the one cancelled when the cancel succeeds),
\* also when another order has tracking number X; otherwise an order with
\* tracking number X is acted on; and the answer is NotFound, nothing being
\* changed, exactly when X is neither.
C28_CancelResolvesIdFirst ==
    [][(call.op = "none" /\ call'.op = "cancel" /\ call'.args.role # "")
        => LET X == call'.args.id
           IN  IF X \in DOMAIN orders
               THEN /\ call'.target = X
                    /\ call'.resp # "NotFound"
                    /\ \A o \in DOMAIN orders \ {X} : orders'[o] = orders[o]
                    /\ (call'.resp = "Success" /\ call'.fx[1].outcome = "ok")
                          => orders'[X].status = "cancelado"
               ELSE IF \E o \in DOMAIN orders : orders[o].trackingNumber = X
               THEN /\ call'.target \in DOMAIN orders
                    /\ orders[call'.target].trackingNumber = X
                    /\ call'.resp # "NotFound"
               ELSE call'.resp = "NotFound" /\ orders' = orders]_vars

\* the seeded order was cancelled by its id while the other order carried
\* that id as its tracking number
C28_Witness ==
    /\ Answered("cancel") /\ call.args.id = SeedId /\ call.resp = "Success"
    /\ call.target = SeedId /\ call.before.status # "cancelado"
    /\ orders[SeedId].status = "cancelado"
    /\ \E o \in DOMAIN orders \ {SeedId} :
          orders[o].trackingNumber = SeedId /\ orders[o].status # "cancelado"

\* C29: a cancel of an existing order whose role is neither user nor admin,
\* a missing role included, is answered ValidationError on both transports
\* and the stored order keeps its status.
C29_UnknownRoleRefused ==
    (Answered("cancel") /\ call.args.role \notin {"user", "admin"}
        /\ call.args.id \in DOMAIN orders /\ ~StoreFailed)
    => /\ call.resp = "ValidationError"
       /\ \A o \in DOMAIN orders :
             o = call.args.id /\ call.before # NoRow
                => orders[o].status = call.before.status

\* C30: every order a list or history read returns, reads served over RPC
\* during the startup seeding included, has a totalAmount equal to the sum of
\* price * quantity over the items it is returned with.
C30_TotalMatchesItemsAtRead ==
    (call.op \in {"list", "history"} /\ call.resp = "Success")
    => \A i \in 1..Len(call.body) :
          call.body[i].totalAmount = SumOfLines(call.body[i].items)

\* the notification the answered call sent, if it sent exactly one
NotificationOf(c) ==
    IF Cardinality(FxOfKind(c, "email")) = 1
    THEN c.fx[CHOOSE i \in FxOfKind(c, "email") : TRUE]
    ELSE [kind |-> "none", key |-> "none", info |-> Null, outcome |-> "none"]

\* C31: a successful create sends the notification of the created template;
\* a successful cancel sends the notification of the cancelled template
\* carrying the fixed user text for role user and the reason for role admin;
\* on both transports.
C31_NotificationFollowsEvent ==
    /\ (Answered("create") /\ call.resp = "Success")
          => NotificationOf(call).key = "created"
    /\ (Answered("cancel") /\ call.resp = "Success" /\ StoreWrote
           /\ call.args.role \in {"user", "admin"})
          => /\ NotificationOf(call).key = "cancelled"
             /\ NotificationOf(call).info =
                   IF call.args.role = "user" THEN UserCancelInfo
                   ELSE AdminCancelInfo(Or(call.args.reason, <<"N/A">>))

\* what the status handler of transport `via` answers to request `args` when
\* the store gives it order o
StatusAnswer(via, args, o) ==
    IF via = "http" THEN getOrderStatus(o, args, TRUE).body
    ELSE GetOrderStatus(o, args, TRUE).body

\* C32: reads are idempotent and free of side effects: a status, history or
\* list read leaves every order and item as it was, publishes no event and
\* sends no notification, and a status read that is repeated on the store it
\* left, for the order it found, gets the result it got.
C32_ReadsAreIdempotent ==
    [][(call.op = "none" /\ call'.op \in {"status", "history", "list"})
        => /\ orders' = orders
           /\ orderItems' = orderItems
           /\ \A i \in 1..Len(call'.fx) :
                 call'.fx[i].kind \notin {"save", "publish", "email"}
           /\ (call'.op = "status" /\ call'.resp = "Success")
                 => \E o \in DOMAIN orders, args \in StatusArgs,
                       via \in {"http", "grpc"} :
                       /\ o = call'.target /\ args = call'.args /\ via = call'.via
                       /\ o \in findOne(args.trackingNumber)
                       /\ o \in findOne(args.trackingNumber)'
                       /\ call'.body = StatusAnswer(via, args, o)
                       /\ call'.body = StatusAnswer(via, args, o)']_vars

\* a status query over HTTP was answered with the summary of the stored order
C32_Witness ==
    /\ Answered("status") /\ call.via = "http" /\ call.resp = "Success"
    /\ call.target \in DOMAIN orders
    /\ call.body.status = orders[call.target].status
    /\ call.fx = <<>>

\* rows r and q differ at most in status and trackingNumber
SameButStatusAndTracking(r, q) ==
    [r EXCEPT !.status = q.status, !.trackingNumber = q.trackingNumber] = q

\* C33: an update or a cancel changes no field of the order other than status
\* and trackingNumber, changes no item and no other order, and an update to
\* a status other than shipped or cancelled leaves the trackingNumber as it
\* was, whatever trackingNumber the caller supplied.
C33_OnlyStatusAndTrackingChange ==
    [][(call.op = "none" /\ call'.op \in {"update", "cancel"})
        => /\ DOMAIN orders' = DOMAIN orders
           /\ orderItems' = orderItems
           /\ \A o \in DOMAIN orders :
                 /\ SameButStatusAndTracking(orders[o], orders'[o])
                 /\ o # call'.target => orders'[o] = orders[o]
                 /\ (call'.op = "update"
                       /\ call'.args.status \notin {"enviado", "cancelado"})
                      => orders'[o].trackingNumber = orders[o].trackingNumber]_vars

\* an update to delivered that supplied another tracking number was stored
\* and the order kept the number it had
C33_Witness ==
    /\ Answered("update") /\ call.resp = "Success" /\ OnOrder /\ StoreWrote
    /\ call.args.status = "entregado"
    /\ Truthy(call.args.trackingNumber)
    /\ call.args.trackingNumber # call.before.trackingNumber
    /\ orders[call.target].status = "entregado"
    /\ orders[call.target].trackingNumber = call.before.trackingNumber

\* tasks t and u both updated order o and both are done
BothUpdated(t, u, o) ==
    /\ t # u
    /\ tasks[t].op = "update" /\ tasks[u].op = "update"
    /\ tasks[t].wrote > 0 /\ tasks[u].wrote > tasks[t].wrote
    /\ tasks[t].target = o /\ tasks[u].target = o

\* C34: last write wins per row: when two updates of the same order have both
\* saved (also when both loaded the order before either saved), the stored
\* status and the stored trackingNumber are both the values computed by the
\* update that saved last, never one call's status with the other's number.
C34_LastWriteWins ==
    \A t \in TaskIds, u \in TaskIds, o \in DOMAIN orders :
        BothUpdated(t, u, o)
        => /\ orders[o].status = tasks[u].row.status
           /\ orders[o].trackingNumber = tasks[u].row.trackingNumber

\* C35: under every interleaving of a cancel by role user with an update of
\* the same order, the cancellation is written only onto an order whose
\* stored status is pending or in processing at that moment: a user never
\* turns an order that is already shipped or delivered into a cancelled one.
C35_UserCancelChecksAtWrite ==
    [][\A t \in TaskIds :
          (tasks[t].op = "cancel" /\ tasks[t].args.role = "user"
              /\ tasks[t].pc = "loaded" /\ tasks'[t].pc = "done"
              /\ orders'[tasks[t].target].status = "cancelado")
          => orders[tasks[t].target].status
                \in {"pendiente", "en procesamiento", "cancelado"}]_vars

\* C36: in every reachable state an order whose status is enviado has a
\* trackingNumber that is not null, after any sequence of creates, updates and
\* cancels over the HTTP and the RPC transport.
C36_ShippedHasTracking ==
    \A o \in DOMAIN orders :
        orders[o].status = "enviado" => orders[o].trackingNumber # Null

\* C37: startup gating: a request, on either transport, is handled only after
\* the wait for the store, the broker connection and the initialisation of
\* the store have all completed: start() has reached its listening state and
\* the channel is no longer unset.
C37_RequestsAfterStartup ==
    [][(call.op = "none" /\ call'.op # "none")
        => boot.pc = "running" /\ channel # "unset"]_vars

\* C38: an update or a cancel that ends in NotFound, Forbidden or
\* ValidationError has written nothing to the store, published no event and
\* sent no notification.
C38_FailureWritesNothing ==
    [][(call.op = "none" /\ call'.op \in {"update", "cancel"}
          /\ call'.resp \in {"NotFound", "Forbidden", "ValidationError"})
        => /\ orders' = orders
           /\ orderItems' = orderItems
           /\ call'.fx = <<>>]_vars

\* an admin cancel without a reason was refused over HTTP and did nothing
C38_Witness ==
    /\ Answered("cancel") /\ call.via = "http" /\ call.args.role = "admin"
    /\ call.resp = "ValidationError" /\ OnOrder
    /\ orders[call.target] = call.before
    /\ call.fx = <<>>

\* the lifecycle event a type tag names
EventNamedBy(messageType) ==
    CASE messageType = "urn:message:InventoryService.Src.Messages:OrderCreatedMessage"
           -> "order.created"
      [] messageType = "urn:message:InventoryService.Src.Messages:OrderUpdatedMessage"
           -> "order.updated"
      [] messageType = "urn:message:InventoryService.Src.Messages:OrderCancelledMessage"
           -> "order.cancelled"
      [] OTHER -> "none"

\* C39: the type tag of every published envelope identifies the lifecycle
\* event being published, so that envelopes with the routing keys
\* order.created, order.updated and order.cancelled carry three different
\* tags, and the envelope carries its payload.
C39_TypeTagNamesEvent ==
    \A i \in FxOfKind(call, "publish") :
        call.fx[i].outcome = "ok"
        => /\ EventNamedBy(call.fx[i].messageType) = call.fx[i].key
           /\ call.fx[i].envelope # NoEnvelope

\* C40: waitForDatabase makes at most DbRetries attempts, returns at the
\* first attempt that succeeds without a further attempt, and raises after
\* the last attempt failed; start() connects to the broker, initialises the
\* database and listens only after waitForDatabase has returned.
C40_BoundedStoreWait ==
    /\ [](boot.dbRetries \in 0..DbRetries)
    /\ [][boot.pc = "db" /\ boot'.pc = "broker"
            => boot'.dbRetries = boot.dbRetries /\ boot.dbRetries > 0]_vars
    /\ [][boot.pc # "db" => boot'.dbRetries = boot.dbRetries]_vars
    /\ [](boot.dbRetries = 0
            <=> boot.error = "db" /\ boot.pc \in {"failed", "exited"})
    /\ [](boot.pc \in {"db", "failed", "exited"} /\ boot.error \in {"none", "db"}
            => channel = "unset" /\ ~boot.http /\ orders = NoOrders)

\* the last attempt failed: start() was rejected before it reached the broker
C40_Witness ==
    /\ boot.dbRetries = 0 /\ boot.pc = "exited" /\ boot.error = "db"
    /\ channel = "unset" /\ ~boot.http /\ orders = NoOrders

====
